---- MODULE Spec2Model ----
(***************************************************************************)
(* State-machine model of nequip/nn/_grad_output.py:                       *)
(*   GradientOutput (constructor and forward), ForceOutput, StressOutput   *)
(*   (constructor and forward).                                            *)
(*                                                                         *)
(* A state mapping (AtomicDataDict) is a function from field names to      *)
(* tensors.  A tensor is a record                                          *)
(*   rg      : its requires_grad flag                                      *)
(*   val     : its value (integers; positions are a sequence of 3-vectors, *)
(*             cell-like tensors a sequence of 3x3 matrices)               *)
(*   grad_fn : "none" for a leaf, else the operation that produced it      *)
(*   base    : for grad_fn = "add_bmm" (x + bmm(x, displacement)), the     *)
(*             value of the operand x                                      *)
(* forward() is split into the steps of its body; pc is its position.      *)
(***************************************************************************)
EXTENDS Integers, Sequences, FiniteSets, TLC

VARIABLES
  gradient_output,    \* the GradientOutput instance (self, or self._grad of StressOutput)
  stress_output,      \* the StressOutput instance
  ctor_args,          \* arguments of the constructor call that was made
  ctor_err,           \* exception type raised by the constructor, or "none"
  data,               \* the state mapping handed to forward (mutated in place)
  pc,                 \* position in the constructor / forward body
  outcome,            \* how the last forward invocation ended
  err,                \* the exception raised by the last forward invocation
  calls,              \* number of forward invocations started
  old_requires_grad,  \* local of GradientOutput.forward
  grads,              \* local of GradientOutput.forward
  cell,               \* local of StressOutput.forward (reference cell)
  num_batch,          \* local of StressOutput.forward
  pre,                \* the state mapping as it was when forward was invoked
  func_in,            \* the state mapping as it was handed to self.func
  func_out            \* the state mapping as self.func returned it

vars == <<gradient_output, stress_output, ctor_args, ctor_err, data, pc,
          outcome, err, calls, old_requires_grad, grads, cell, num_batch,
          pre, func_in, func_out>>

(***************************************************************************)
(* Bounds of the model.                                                    *)
(***************************************************************************)
MaxAtoms == 2
MaxConfigs == 2
MaxWrt == 2
MaxCalls == 2

(***************************************************************************)
(* Field names (nequip.data.AtomicDataDict keys and the helper field).     *)
(***************************************************************************)
POSITIONS_KEY == "pos"
CELL_KEY == "cell"
BATCH_KEY == "batch"
TOTAL_ENERGY_KEY == "total_energy"
FORCE_KEY == "forces"
STRESS_KEY == "stress"
DISPLACEMENT == "_displacement"

NoObject == [cls |-> "None"]
NoError == [type |-> "none", origin |-> "none", msg |-> <<>>]

(***************************************************************************)
(* Tensor arithmetic on 3-vectors and 3x3 matrices.                        *)
(***************************************************************************)
Dot(u, v) == u[1] * v[1] + u[2] * v[2] + u[3] * v[3]

Cross(u, v) == << u[2] * v[3] - u[3] * v[2],
                  u[3] * v[1] - u[1] * v[3],
                  u[1] * v[2] - u[2] * v[1] >>

VecAdd(u, v) == [a \in 1..3 |-> u[a] + v[a]]

VecScale(k, u) == [a \in 1..3 |-> k * u[a]]

ZeroVec == <<0, 0, 0>>

ZeroMat == <<ZeroVec, ZeroVec, ZeroVec>>

MatAdd(A, B) == [r \in 1..3 |-> VecAdd(A[r], B[r])]

MatScale(k, A) == [r \in 1..3 |-> VecScale(k, A[r])]

\* row vector p times matrix S
VecMat(p, S) == [b \in 1..3 |-> p[1] * S[1][b] + p[2] * S[2][b] + p[3] * S[3][b]]

\* matrix product A.S (each row of A times S)
MatMul(A, S) == [r \in 1..3 |-> VecMat(A[r], S)]

\* p^T g : the 3x3 matrix with entries p[a]*g[b]
Outer(p, g) == [a \in 1..3 |-> VecScale(p[a], g)]

\* A^T G : entries sum_r A[r][a]*G[r][b]
TransMul(A, G) == MatAdd(MatAdd(Outer(A[1], G[1]), Outer(A[2], G[2])), Outer(A[3], G[3]))

RECURSIVE SumVecs(_)
\* sum of a sequence of 3-vectors
SumVecs(s) == IF Len(s) = 0 THEN ZeroVec ELSE VecAdd(s[1], SumVecs(Tail(s)))

RECURSIVE SumMats(_)
\* sum of a sequence of 3x3 matrices
SumMats(s) == IF Len(s) = 0 THEN ZeroMat ELSE MatAdd(s[1], SumMats(Tail(s)))

RECURSIVE SumInts(_)
SumInts(s) == IF Len(s) = 0 THEN 0 ELSE s[1] + SumInts(Tail(s))

RECURSIVE SeqMax(_)
SeqMax(s) == IF Len(s) = 1 THEN s[1]
             ELSE LET m == SeqMax(Tail(s)) IN IF s[1] > m THEN s[1] ELSE m

Range(s) == {s[i] : i \in DOMAIN s}

(***************************************************************************)
(* Tensors and state mappings.  rank: 0 = per-atom integers, 1 = per-      *)
(* configuration scalars, 2 = per-atom 3-vectors, 3 = per-configuration    *)
(* 3x3 matrices, 4 = per-configuration quotients matrix / scalar.          *)
(***************************************************************************)
Tensor(rg, rank, val) ==
  [isNone |-> FALSE, rg |-> rg, rank |-> rank, val |-> val,
   grad_fn |-> "none", base |-> <<>>]

\* the None of Optional[Tensor]
NoneTensor ==
  [isNone |-> TRUE, rg |-> FALSE, rank |-> 0, val |-> <<>>,
   grad_fn |-> "none", base |-> <<>>]

Put(d, k, t) == [f \in DOMAIN d \cup {k} |-> IF f = k THEN t ELSE d[f]]

\* a deletion that leaves the entry in place
DelKeepsEntry(d, k) == d

Del(d, k) == [f \in DOMAIN d \ {k} |-> d[f]]

\* torch.neg: element-wise negation; the result is a new tensor of the graph
Neg(t) ==
  [t EXCEPT !.val = IF t.rank = 2
                    THEN [i \in DOMAIN t.val |-> VecScale(-1, t.val[i])]
                    ELSE [i \in DOMAIN t.val |-> MatScale(-1, t.val[i])],
            !.grad_fn = IF t.rg THEN "neg" ELSE "none",
            !.base = <<>>]

(***************************************************************************)
(* The wrapped model self.func and the differentiation engine.             *)
(* The wrapped model is an external collaborator: it reads positions,      *)
(* cell and batch and writes total_energy into the mapping it was given.   *)
(* Five models stand for it:                                               *)
(*   harmonic  E_c = sum over atoms i of c of p_i . p_i                    *)
(*   lattice   E_c = sum over rows r of cell_c[r] . cell_c[r]              *)
(*   coupled   E_c = sum over atoms i of c of p_i . cell_c[1]              *)
(*   constant  E_c = 0, independent of every input                         *)
(*   raises    the model raises                                            *)
(***************************************************************************)
Models == {"harmonic", "lattice", "coupled", "constant", "raises"}

DependsOn(func) ==
  CASE func = "harmonic" -> {POSITIONS_KEY}
    [] func = "lattice"  -> {CELL_KEY}
    [] func = "coupled"  -> {POSITIONS_KEY, CELL_KEY}
    [] OTHER             -> {}

NAtoms(d) == Len(d[POSITIONS_KEY].val)

BatchOf(d) ==
  IF BATCH_KEY \in DOMAIN d THEN d[BATCH_KEY].val
  ELSE [i \in 1..NAtoms(d) |-> 0]

NConfigs(d) == SeqMax(BatchOf(d)) + 1

\* index into the cell tensor of the cell of configuration c (c counts from 0)
CellIdx(d, c) == IF Len(d[CELL_KEY].val) = 1 THEN 1 ELSE c + 1

CellOf(d, c) == d[CELL_KEY].val[CellIdx(d, c)]

ModelRaises(func, d) ==
  \/ func = "raises"
  \/ /\ CELL_KEY \in DependsOn(func)
     /\ Len(d[CELL_KEY].val) \notin {1, NConfigs(d)}

EnergyOf(func, d, c) ==
  LET b == BatchOf(d)
      p == d[POSITIONS_KEY].val
  IN CASE func = "harmonic" ->
            SumInts([i \in 1..Len(p) |-> IF b[i] = c THEN Dot(p[i], p[i]) ELSE 0])
       [] func = "lattice" ->
            LET A == CellOf(d, c) IN Dot(A[1], A[1]) + Dot(A[2], A[2]) + Dot(A[3], A[3])
       [] func = "coupled" ->
            SumInts([i \in 1..Len(p) |->
                       IF b[i] = c THEN Dot(p[i], CellOf(d, c)[1]) ELSE 0])
       [] OTHER -> 0

\* the result of self.func(data): the same mapping with total_energy written
RunFunc(func, d) ==
  Put(d, TOTAL_ENERGY_KEY,
      [Tensor(\E k \in DependsOn(func) : d[k].rg, 1,
              [c \in 1..NConfigs(d) |-> EnergyOf(func, d, c - 1)])
       EXCEPT !.grad_fn = IF \E k \in DependsOn(func) : d[k].rg THEN "func" ELSE "none"])

\* d(sum of energies)/d(positions tensor handed to the model)
GradPos(func, d) ==
  LET p == d[POSITIONS_KEY].val
      b == BatchOf(d)
  IN [i \in 1..Len(p) |->
        IF func = "harmonic" THEN VecScale(2, p[i]) ELSE CellOf(d, b[i])[1]]

\* d(sum of energies)/d(cell tensor handed to the model)
GradCell(func, d) ==
  LET p == d[POSITIONS_KEY].val
      b == BatchOf(d)
      one(c) ==
        IF func = "lattice" THEN MatScale(2, CellOf(d, c))
        ELSE <<SumVecs([i \in 1..Len(p) |-> IF b[i] = c THEN p[i] ELSE ZeroVec]),
               ZeroVec, ZeroVec>>
  IN [j \in 1..Len(d[CELL_KEY].val) |->
        SumMats([n \in 1..NConfigs(d) |->
                   IF CellIdx(d, n - 1) = j THEN one(n - 1) ELSE ZeroMat])]

\* d(sum of energies)/d(displacement), by the chain rule through
\* pos + bmm(pos, displacement[batch]) and cell + bmm(cell, displacement)
GradDisplacement(func, d) ==
  LET b == BatchOf(d)
      gp == GradPos(func, d)
      gc == GradCell(func, d)
      viaPos == POSITIONS_KEY \in DependsOn(func) /\ d[POSITIONS_KEY].grad_fn = "add_bmm"
      viaCell == CELL_KEY \in DependsOn(func) /\ d[CELL_KEY].grad_fn = "add_bmm"
  IN [c \in 1..Len(d[DISPLACEMENT].val) |->
        MatAdd(IF viaPos
               THEN SumMats([i \in 1..Len(b) |->
                               IF b[i] = c - 1
                               THEN Outer(d[POSITIONS_KEY].base[i], gp[i])
                               ELSE ZeroMat])
               ELSE ZeroMat,
               IF viaCell THEN TransMul(d[CELL_KEY].base[c], gc[c]) ELSE ZeroMat)]

\* whether the energy depends, within the graph, on the tensor under field k
Connected(func, d, k) ==
  CASE k = POSITIONS_KEY -> POSITIONS_KEY \in DependsOn(func)
    [] k = CELL_KEY      -> CELL_KEY \in DependsOn(func)
    [] k = DISPLACEMENT  ->
         \/ POSITIONS_KEY \in DependsOn(func) /\ d[POSITIONS_KEY].grad_fn = "add_bmm"
         \/ CELL_KEY \in DependsOn(func) /\ d[CELL_KEY].grad_fn = "add_bmm"
    [] OTHER -> FALSE

\* one entry of the result of torch.autograd.grad: the derivative of the
\* batch-summed energy with respect to the tensor under field k, or None
GradOf(func, d, k, create_graph) ==
  IF ~Connected(func, d, k) THEN NoneTensor
  ELSE [Tensor(create_graph, IF k = POSITIONS_KEY THEN 2 ELSE 3,
               CASE k = POSITIONS_KEY -> GradPos(func, d)
                 [] k = CELL_KEY      -> GradCell(func, d)
                 [] OTHER             -> GradDisplacement(func, d))
        EXCEPT !.grad_fn = IF create_graph THEN "autograd" ELSE "none"]
(***************************************************************************)
(* Construction.  A str-or-list argument is a record [type, v] with type   *)
(* "str", "list" or "None".                                                *)
(***************************************************************************)
Str(x) == [type |-> "str", v |-> x]

List(x) == [type |-> "list", v |-> x]

None == [type |-> "None", v |-> <<>>]

\* f"d({of})/d({e})"
DName(of, e) == "d(" \o of \o ")/d(" \o e \o ")"

\* the flag computed from the wrong sign
IsNegateFlipped(sign) == sign = 1

\* sign == -1.0
IsNegate(sign) == sign = -1

\* a constructor that does not compare the number of names
GradientOutputInitUnchecked(func, of, wrt_arg, out_field_arg, sign_arg) ==
  LET sign == sign_arg
      wrt == IF wrt_arg.type = "str" THEN <<wrt_arg.v>> ELSE wrt_arg.v
      out_field == IF out_field_arg.type = "str" THEN <<out_field_arg.v>>
                   ELSE out_field_arg.v
      obj(o) == [cls |-> "GradientOutput", func |-> func, of |-> of, wrt |-> wrt,
                 out_field |-> o, sign |-> sign, _negate |-> sign = -1,
                 training |-> TRUE]
  IN IF sign \notin {1, -1}
     THEN [err |-> "AssertionError", obj |-> NoObject]
     ELSE IF out_field_arg.type = "None"
     THEN [err |-> "none", obj |-> obj([i \in DOMAIN wrt |-> DName(of, wrt[i])])]
     ELSE [err |-> "none", obj |-> obj(out_field)]

\* GradientOutput.__init__: the instance, or the exception it raises
GradientOutputInit(func, of, wrt_arg, out_field_arg, sign_arg) ==
  LET sign == sign_arg
      wrt == IF wrt_arg.type = "str" THEN <<wrt_arg.v>> ELSE wrt_arg.v
      out_field == IF out_field_arg.type = "str" THEN <<out_field_arg.v>>
                   ELSE out_field_arg.v
      obj(o) == [cls |-> "GradientOutput", func |-> func, of |-> of, wrt |-> wrt,
                 out_field |-> o, sign |-> sign, _negate |-> IsNegate(sign),
                 training |-> TRUE]
  IN IF sign \notin {1, -1}
     THEN [err |-> "AssertionError", obj |-> NoObject]
     ELSE IF out_field_arg.type = "None"
     THEN [err |-> "none", obj |-> obj([i \in DOMAIN wrt |-> DName(of, wrt[i])])]
     ELSE IF Len(out_field) # Len(wrt)
     THEN [err |-> "AssertionError", obj |-> NoObject]
     ELSE [err |-> "none", obj |-> obj(out_field)]

\* ForceOutput(energy_model)
ForceOutput(energy_model) ==
  GradientOutputInit(energy_model, TOTAL_ENERGY_KEY, Str(POSITIONS_KEY),
                     Str(FORCE_KEY), -1)

\* StressOutput.__init__: the instance and its self._grad, or the exception
StressOutputInit(energy_model, do_forces) ==
  IF ~do_forces
  THEN [err |-> "NotImplementedError", obj |-> NoObject, _grad |-> NoObject]
  ELSE LET g == GradientOutputInit(energy_model, TOTAL_ENERGY_KEY,
                                   List(<<POSITIONS_KEY, DISPLACEMENT>>),
                                   List(<<FORCE_KEY, STRESS_KEY>>), 1)
       IN [err |-> g.err,
           obj |-> [cls |-> "StressOutput", do_forces |-> do_forces],
           _grad |-> g.obj]

\* arguments a caller may pass
SignArgs == {-1, 0, 1, 2}

WrtNames == {POSITIONS_KEY, CELL_KEY}

OutNames == {FORCE_KEY, STRESS_KEY}

SeqsUpTo(S, n) == UNION {[1..m -> S] : m \in 1..n}

WrtArgs == {Str(k) : k \in WrtNames} \cup {List(w) : w \in SeqsUpTo(WrtNames, MaxWrt)}

OutFieldArgs ==
  {None} \cup {Str(k) : k \in OutNames} \cup {List(o) : o \in SeqsUpTo(OutNames, MaxWrt)}

Constructed(r) ==
  /\ ctor_err' = r.err
  /\ pc' = IF r.err = "none" THEN "idle" ELSE "dead"
  /\ UNCHANGED <<data, outcome, err, calls, old_requires_grad, grads, cell,
                 num_batch, pre, func_in, func_out>>

NewGradientOutput ==
  /\ pc = "new"
  /\ \E func \in Models, wrt_arg \in WrtArgs, out_field_arg \in OutFieldArgs,
        sign_arg \in SignArgs :
       LET r == GradientOutputInit(func, TOTAL_ENERGY_KEY, wrt_arg, out_field_arg, sign_arg)
       IN /\ ctor_args' = [cls |-> "GradientOutput", wrt |-> wrt_arg,
                           out_field |-> out_field_arg, sign |-> sign_arg,
                           do_forces |-> TRUE]
          /\ gradient_output' = r.obj
          /\ stress_output' = NoObject
          /\ Constructed(r)

NewForceOutput ==
  /\ pc = "new"
  /\ \E energy_model \in Models :
       LET r == ForceOutput(energy_model)
       IN /\ ctor_args' = [cls |-> "ForceOutput", wrt |-> Str(POSITIONS_KEY),
                           out_field |-> Str(FORCE_KEY), sign |-> -1,
                           do_forces |-> TRUE]
          /\ gradient_output' = r.obj
          /\ stress_output' = NoObject
          /\ Constructed(r)

NewStressOutput ==
  /\ pc = "new"
  /\ \E energy_model \in Models, do_forces \in BOOLEAN :
       LET r == StressOutputInit(energy_model, do_forces)
       IN /\ ctor_args' = [cls |-> "StressOutput",
                           wrt |-> List(<<POSITIONS_KEY, DISPLACEMENT>>),
                           out_field |-> List(<<FORCE_KEY, STRESS_KEY>>),
                           sign |-> 1, do_forces |-> do_forces]
          /\ gradient_output' = r._grad
          /\ stress_output' = r.obj
          /\ Constructed(r)

(***************************************************************************)
(* GradientOutput.forward                                                  *)
(***************************************************************************)
RuntimeError(origin, msg) == [type |-> "RuntimeError", origin |-> origin, msg |-> msg]

\* the message of the RuntimeError raised by GradientOutput.forward; a
\* message is the sequence of the pieces it is put together from
GradNoneMsg == <<"Something is wrong, gradient couldn't be computed">>

\* an exception leaves forward (and every enclosing forward)
Raise(e) ==
  /\ pc' = "idle"
  /\ outcome' = "raised"
  /\ err' = e

RECURSIVE SetRequiresGrad(_, _, _, _)
\* the loop "for k in self.wrt", from entry i on: the mapping and the
\* list old_requires_grad it ends with
SetRequiresGrad(d, old, wrt, i) ==
  IF i > Len(wrt) THEN [data |-> d, old_requires_grad |-> old]
  ELSE SetRequiresGrad(Put(d, wrt[i], [d[wrt[i]] EXCEPT !.rg = TRUE]),
                       Append(old, d[wrt[i]].rg), wrt, i + 1)

RECURSIVE WriteGradsSkipNone(_, _, _, _, _)
\* a write loop that passes over a None gradient instead of raising
WriteGradsSkipNone(d, out_field, gs, negate, i) ==
  IF i > Len(gs) \/ i > Len(out_field) THEN [data |-> d, raised |-> FALSE]
  ELSE IF gs[i].isNone THEN WriteGradsSkipNone(d, out_field, gs, negate, i + 1)
  ELSE WriteGradsSkipNone(Put(d, out_field[i], IF negate THEN Neg(gs[i]) ELSE gs[i]),
                          out_field, gs, negate, i + 1)

RECURSIVE WriteGrads(_, _, _, _, _)
\* the loop "for out, grad in zip(self.out_field, grads)", from entry i on
WriteGrads(d, out_field, gs, negate, i) ==
  IF i > Len(gs) \/ i > Len(out_field) THEN [data |-> d, raised |-> FALSE]
  ELSE IF gs[i].isNone THEN [data |-> d, raised |-> TRUE]
  ELSE WriteGrads(Put(d, out_field[i], IF negate THEN Neg(gs[i]) ELSE gs[i]),
                  out_field, gs, negate, i + 1)

RECURSIVE RestoreRequiresGrad(_, _, _, _)
\* the loop "for req_grad, k in zip(old_requires_grad, self.wrt)"
RestoreRequiresGrad(d, old, wrt, i) ==
  IF i > Len(wrt) \/ i > Len(old) THEN d
  ELSE RestoreRequiresGrad(Put(d, wrt[i], [d[wrt[i]] EXCEPT !.rg = old[i]]),
                           old, wrt, i + 1)

\* the caller invokes forward of a GradientOutput
G_Call ==
  /\ pc = "idle"
  /\ stress_output = NoObject
  /\ calls < MaxCalls
  /\ calls' = calls + 1
  /\ pre' = data
  /\ outcome' = "running"
  /\ err' = NoError
  /\ old_requires_grad' = <<>>
  /\ grads' = <<>>
  /\ func_in' = <<>>
  /\ func_out' = <<>>
  /\ pc' = "g_set"
  /\ UNCHANGED <<gradient_output, stress_output, ctor_args, ctor_err, data,
                 cell, num_batch>>

\* lines 70-75
G_SetReqGrad ==
  /\ pc = "g_set"
  /\ LET r == SetRequiresGrad(data, <<>>, gradient_output.wrt, 1)
     IN /\ data' = r.data
        /\ old_requires_grad' = r.old_requires_grad
  /\ pc' = "g_func"
  /\ UNCHANGED <<gradient_output, stress_output, ctor_args, ctor_err, outcome,
                 err, calls, grads, cell, num_batch, pre, func_in, func_out>>

\* line 77, the wrapped model returns
G_Func ==
  /\ pc = "g_func"
  /\ ~ModelRaises(gradient_output.func, data)
  /\ func_in' = data
  /\ data' = RunFunc(gradient_output.func, data)
  /\ func_out' = data'
  /\ pc' = "g_grad"
  /\ UNCHANGED <<gradient_output, stress_output, ctor_args, ctor_err, outcome,
                 err, calls, old_requires_grad, grads, cell, num_batch, pre>>

\* line 77, the wrapped model raises
G_FuncRaises ==
  /\ pc = "g_func"
  /\ ModelRaises(gradient_output.func, data)
  /\ func_in' = data
  /\ Raise(RuntimeError("func", <<"the wrapped model raised">>))
  /\ UNCHANGED <<gradient_output, stress_output, ctor_args, ctor_err, data,
                 calls, old_requires_grad, grads, cell, num_batch, pre, func_out>>

Disconnected(i) ==
  ~Connected(gradient_output.func, data, gradient_output.wrt[i])

\* lines 79-87, torch.autograd.grad returns one Optional[Tensor] per entry
\* of wrt_tensors (None for an entry the energy does not depend on)
G_Autograd ==
  /\ pc = "g_grad"
  /\ data[gradient_output.of].rg
  /\ grads' = [i \in DOMAIN gradient_output.wrt |->
                 GradOf(gradient_output.func, data, gradient_output.wrt[i],
                        gradient_output.training)]
  /\ pc' = "g_write"
  /\ UNCHANGED <<gradient_output, stress_output, ctor_args, ctor_err, data,
                 outcome, err, calls, old_requires_grad, cell, num_batch, pre,
                 func_in, func_out>>

\* lines 79-87, torch.autograd.grad itself raises: the energy is not part of
\* a graph, or (allow_unused is left at its default) an entry is unused
G_AutogradRaises ==
  /\ pc = "g_grad"
  /\ \/ ~data[gradient_output.of].rg
     \/ \E i \in DOMAIN gradient_output.wrt : Disconnected(i)
  /\ Raise(RuntimeError("torch.autograd.grad",
                        <<"the differentiation engine rejected the request">>))
  /\ UNCHANGED <<gradient_output, stress_output, ctor_args, ctor_err, data,
                 calls, old_requires_grad, grads, cell, num_batch, pre,
                 func_in, func_out>>

\* lines 90-96, every gradient is a tensor
G_Write ==
  /\ pc = "g_write"
  /\ LET r == WriteGrads(data, gradient_output.out_field, grads,
                         gradient_output._negate, 1)
     IN /\ ~r.raised
        /\ data' = r.data
  /\ pc' = "g_restore"
  /\ UNCHANGED <<gradient_output, stress_output, ctor_args, ctor_err, outcome,
                 err, calls, old_requires_grad, grads, cell, num_batch, pre,
                 func_in, func_out>>

\* lines 90-93, a gradient is None
G_WriteRaises ==
  /\ pc = "g_write"
  /\ LET r == WriteGrads(data, gradient_output.out_field, grads,
                         gradient_output._negate, 1)
     IN /\ r.raised
        /\ data' = r.data
  /\ Raise(RuntimeError("GradientOutput.forward", GradNoneMsg))
  /\ UNCHANGED <<gradient_output, stress_output, ctor_args, ctor_err, calls,
                 old_requires_grad, grads, cell, num_batch, pre, func_in,
                 func_out>>

\* lines 98-100
G_Restore ==
  /\ pc = "g_restore"
  /\ data' = RestoreRequiresGrad(data, old_requires_grad, gradient_output.wrt, 1)
  /\ pc' = "g_return"
  /\ UNCHANGED <<gradient_output, stress_output, ctor_args, ctor_err, outcome,
                 err, calls, old_requires_grad, grads, cell, num_batch, pre,
                 func_in, func_out>>

\* line 102: back to the caller, or to line 195 of StressOutput.forward
G_Return ==
  /\ pc = "g_return"
  /\ IF stress_output = NoObject
     THEN pc' = "idle" /\ outcome' = "returned"
     ELSE pc' = "s_neg" /\ outcome' = outcome
  /\ UNCHANGED <<gradient_output, stress_output, ctor_args, ctor_err, data,
                 err, calls, old_requires_grad, grads, cell, num_batch, pre,
                 func_in, func_out>>

GradientForward ==
  \/ G_SetReqGrad \/ G_Func \/ G_FuncRaises \/ G_Autograd \/ G_AutogradRaises
  \/ G_Write \/ G_WriteRaises \/ G_Restore \/ G_Return

(***************************************************************************)
(* StressOutput.forward                                                    *)
(***************************************************************************)
\* AtomicDataDict.with_batch: the mapping with a batch field; a mapping
\* without one is a single configuration and gets an all-zero batch index
WithBatch(d) ==
  IF BATCH_KEY \in DOMAIN d THEN d
  ELSE Put(d, BATCH_KEY, Tensor(FALSE, 0, [i \in 1..NAtoms(d) |-> 0]))

\* whether cell.view(-1, 3, 3).expand(n, 3, 3) is possible
CanExpand(t, n) == Len(t.val) \in {1, n}

\* cell.view(-1, 3, 3).expand(n, 3, 3): a view of the caller's cell tensor
Expand(t, n) ==
  [t EXCEPT !.val = [c \in 1..n |-> IF Len(t.val) = 1 THEN t.val[1] ELSE t.val[c]],
            !.grad_fn = IF t.rg THEN "expand" ELSE "none",
            !.base = <<>>]

\* a strain that starts at the identity instead of at zero
IdentityDisplacement(n) ==
  [isNone |-> FALSE, rg |-> TRUE, rank |-> 3,
   val |-> [c \in 1..n |-> <<<<1, 0, 0>>, <<0, 1, 0>>, <<0, 0, 1>>>>],
   grad_fn |-> "none", base |-> <<>>]

\* torch.zeros((n, 3, 3)) followed by requires_grad_(True)
ZeroDisplacement(n) == Tensor(TRUE, 3, [c \in 1..n |-> ZeroMat])

\* pos + torch.bmm(pos.unsqueeze(-2), displacement[batch]).squeeze(-2)
DeformPositions(pos, displacement, batch) ==
  [pos EXCEPT !.val = [i \in DOMAIN pos.val |->
                         VecAdd(pos.val[i],
                                VecMat(pos.val[i], displacement.val[batch.val[i] + 1]))],
              !.rg = pos.rg \/ displacement.rg,
              !.grad_fn = IF pos.rg \/ displacement.rg THEN "add_bmm" ELSE "none",
              !.base = pos.val]

\* cell + torch.bmm(cell, displacement)
DeformCell(c, displacement) ==
  [c EXCEPT !.val = [n \in DOMAIN c.val |->
                       MatAdd(c.val[n], MatMul(c.val[n], displacement.val[n]))],
            !.rg = c.rg \/ displacement.rg,
            !.grad_fn = IF c.rg \/ displacement.rg THEN "add_bmm" ELSE "none",
            !.base = c.val]

\* the triple product with the last two rows exchanged
VolumeSwapped(c) == [n \in DOMAIN c.val |-> Dot(c.val[n][1], Cross(c.val[n][3], c.val[n][2]))]

\* torch.sum(cell[:, 0, :] * torch.cross(cell[:, 1, :], cell[:, 2, :], dim=1), dim=1)
Volume(c) == [n \in DOMAIN c.val |-> Dot(c.val[n][1], Cross(c.val[n][2], c.val[n][3]))]

\* stress / volume: per configuration, the quotient of the matrix by the
\* scalar (kept as numerator and denominator; a zero denominator is the
\* non-finite value the division yields)
Div(t, volume) ==
  [t EXCEPT !.val = [n \in DOMAIN t.val |-> [num |-> t.val[n], den |-> volume[n]]],
            !.rank = 4,
            !.grad_fn = IF t.rg THEN "div" ELSE "none",
            !.base = <<>>]

\* the caller invokes forward of a StressOutput
S_Call ==
  /\ pc = "idle"
  /\ stress_output # NoObject
  /\ calls < MaxCalls
  /\ calls' = calls + 1
  /\ pre' = data
  /\ outcome' = "running"
  /\ err' = NoError
  /\ old_requires_grad' = <<>>
  /\ grads' = <<>>
  /\ cell' = <<>>
  /\ num_batch' = 0
  /\ func_in' = <<>>
  /\ func_out' = <<>>
  /\ pc' = "s_batch"
  /\ UNCHANGED <<gradient_output, stress_output, ctor_args, ctor_err, data>>

\* lines 169-171
S_WithBatch ==
  /\ pc = "s_batch"
  /\ data' = WithBatch(data)
  /\ num_batch' = SeqMax(data'[BATCH_KEY].val) + 1
  /\ pc' = "s_cell"
  /\ UNCHANGED <<gradient_output, stress_output, ctor_args, ctor_err, outcome,
                 err, calls, old_requires_grad, grads, cell, pre, func_in,
                 func_out>>

\* lines 172-174
S_ExpandCell ==
  /\ pc = "s_cell"
  /\ CanExpand(data[CELL_KEY], num_batch)
  /\ data' = Put(data, CELL_KEY, Expand(data[CELL_KEY], num_batch))
  /\ pc' = "s_disp"
  /\ UNCHANGED <<gradient_output, stress_output, ctor_args, ctor_err, outcome,
                 err, calls, old_requires_grad, grads, cell, num_batch, pre,
                 func_in, func_out>>

\* lines 172-174, the cell tensor holds neither one cell nor one per configuration
S_ExpandCellRaises ==
  /\ pc = "s_cell"
  /\ ~CanExpand(data[CELL_KEY], num_batch)
  /\ Raise(RuntimeError("expand", <<"the expanded size must match the existing size">>))
  /\ UNCHANGED <<gradient_output, stress_output, ctor_args, ctor_err, data,
                 calls, old_requires_grad, grads, cell, num_batch, pre,
                 func_in, func_out>>

\* lines 178-184
S_AddDisplacement ==
  /\ pc = "s_disp"
  /\ data' = Put(data, DISPLACEMENT, ZeroDisplacement(num_batch))
  /\ pc' = "s_deform"
  /\ UNCHANGED <<gradient_output, stress_output, ctor_args, ctor_err, outcome,
                 err, calls, old_requires_grad, grads, cell, num_batch, pre,
                 func_in, func_out>>

\* lines 185-192
S_Deform ==
  /\ pc = "s_deform"
  /\ cell' = data[CELL_KEY]
  /\ data' = Put(Put(data, POSITIONS_KEY,
                     DeformPositions(data[POSITIONS_KEY], data[DISPLACEMENT],
                                     data[BATCH_KEY])),
                 CELL_KEY, DeformCell(data[CELL_KEY], data[DISPLACEMENT]))
  /\ pc' = "s_grad"
  /\ UNCHANGED <<gradient_output, stress_output, ctor_args, ctor_err, outcome,
                 err, calls, old_requires_grad, grads, num_batch, pre, func_in,
                 func_out>>

\* line 195: self._grad(data) is entered
S_Grad ==
  /\ pc = "s_grad"
  /\ pc' = "g_set"
  /\ UNCHANGED <<gradient_output, stress_output, ctor_args, ctor_err, data,
                 outcome, err, calls, old_requires_grad, grads, cell,
                 num_batch, pre, func_in, func_out>>

\* line 198
S_NegForces ==
  /\ pc = "s_neg"
  /\ data' = Put(data, FORCE_KEY, Neg(data[FORCE_KEY]))
  /\ pc' = "s_rescale"
  /\ UNCHANGED <<gradient_output, stress_output, ctor_args, ctor_err, outcome,
                 err, calls, old_requires_grad, grads, cell, num_batch, pre,
                 func_in, func_out>>

\* lines 203-209
S_Rescale ==
  /\ pc = "s_rescale"
  /\ data' = Put(data, STRESS_KEY, Div(data[STRESS_KEY], Volume(cell)))
  /\ pc' = "s_remove"
  /\ UNCHANGED <<gradient_output, stress_output, ctor_args, ctor_err, outcome,
                 err, calls, old_requires_grad, grads, cell, num_batch, pre,
                 func_in, func_out>>

\* line 212
S_RemoveHelper ==
  /\ pc = "s_remove"
  /\ data' = Del(data, DISPLACEMENT)
  /\ pc' = "s_return"
  /\ UNCHANGED <<gradient_output, stress_output, ctor_args, ctor_err, outcome,
                 err, calls, old_requires_grad, grads, cell, num_batch, pre,
                 func_in, func_out>>

\* line 214
S_Return ==
  /\ pc = "s_return"
  /\ pc' = "idle"
  /\ outcome' = "returned"
  /\ UNCHANGED <<gradient_output, stress_output, ctor_args, ctor_err, data,
                 err, calls, old_requires_grad, grads, cell, num_batch, pre,
                 func_in, func_out>>

StressForward ==
  \/ S_WithBatch \/ S_ExpandCell \/ S_ExpandCellRaises \/ S_AddDisplacement
  \/ S_Deform \/ S_Grad \/ S_NegForces \/ S_Rescale \/ S_RemoveHelper
  \/ S_Return

(***************************************************************************)
(* Input states.                                                           *)
(***************************************************************************)
PosVals == {<<1, 0, 0>>, <<0, 2, -1>>}

\* the unit cell, a sheared cell of volume 2 and a flat cell of volume 0
CellVals == { <<<<1, 0, 0>>, <<0, 1, 0>>, <<0, 0, 1>>>>,
              <<<<2, 0, 0>>, <<1, 1, 0>>, <<0, 0, 1>>>>,
              <<<<1, 0, 0>>, <<0, 1, 0>>, <<1, 1, 0>>>> }

\* batch indices as the data container builds them: sorted, from 0, no gaps
BatchVals(n) ==
  {b \in [1..n -> 0..(MaxConfigs - 1)] :
     /\ b[1] = 0
     /\ \A i \in 1..(n - 1) : b[i + 1] \in {b[i], b[i] + 1}}

InitCommon ==
  /\ gradient_output = NoObject
  /\ stress_output = NoObject
  /\ ctor_args = NoObject
  /\ ctor_err = "none"
  /\ pc = "new"
  /\ outcome = "none"
  /\ err = NoError
  /\ calls = 0
  /\ old_requires_grad = <<>>
  /\ grads = <<>>
  /\ cell = <<>>
  /\ num_batch = 0
  /\ pre = <<>>
  /\ func_in = <<>>
  /\ func_out = <<>>

\* a single configuration without a batch field
InitGrad ==
  /\ InitCommon
  /\ \E n \in 1..MaxAtoms, rgp \in BOOLEAN, rgc \in BOOLEAN :
       \E p \in [1..n -> PosVals], A \in CellVals :
          data = [f \in {POSITIONS_KEY, CELL_KEY} |->
                    IF f = POSITIONS_KEY THEN Tensor(rgp, 2, p)
                    ELSE Tensor(rgc, 3, <<A>>)]

NextGrad == NewGradientOutput \/ G_Call \/ GradientForward

SpecGrad == InitGrad /\ [][NextGrad]_vars

\* one or several configurations, with or without a batch field, with one
\* cell for all configurations or a cell per configuration
InitStress ==
  /\ InitCommon
  /\ \E n \in 1..MaxAtoms, m \in 1..MaxConfigs, rgp \in BOOLEAN, rgc \in BOOLEAN,
        has_batch \in BOOLEAN :
       \E p \in [1..n -> PosVals], A \in [1..m -> CellVals], b \in BatchVals(n) :
          /\ ~has_batch => \A i \in 1..n : b[i] = 0
          /\ data = [f \in {POSITIONS_KEY, CELL_KEY}
                            \cup (IF has_batch THEN {BATCH_KEY} ELSE {}) |->
                       CASE f = POSITIONS_KEY -> Tensor(rgp, 2, p)
                         [] f = CELL_KEY -> Tensor(rgc, 3, A)
                         [] OTHER -> Tensor(FALSE, 0, b)]

NextStress ==
  NewForceOutput \/ NewStressOutput \/ G_Call \/ S_Call \/ GradientForward
    \/ StressForward

SpecStress == InitStress /\ [][NextStress]_vars

\* a few input states, for the properties of construction
InitAll ==
  /\ InitCommon
  /\ \E n \in 1..MaxAtoms, m \in 1..MaxConfigs :
       \E A \in [1..m -> CellVals] :
          data = [f \in {POSITIONS_KEY, CELL_KEY} |->
                    IF f = POSITIONS_KEY
                    THEN Tensor(FALSE, 2, [i \in 1..n |-> <<1, 0, 0>>])
                    ELSE Tensor(FALSE, 3, A)]

NextAll == NextGrad \/ NextStress

SpecAll == InitAll /\ [][NextAll]_vars

(***************************************************************************)
(* Properties.                                                             *)
(***************************************************************************)
IsGradientOutput == stress_output = NoObject /\ gradient_output # NoObject

IsStressOutput == stress_output # NoObject

\* a forward invocation has ended and none is in progress
Returned == pc = "idle" /\ outcome = "returned"

Failed == pc = "idle" /\ outcome = "raised"

\* C1: when GradientOutput.forward returns normally, the requires_grad flag
\* of every field named in wrt equals, in the returned state, the flag the
\* field had immediately before the call (also when wrt names a field
\* more than once).
C1_FlagsRestoredOnReturn ==
  (IsGradientOutput /\ Returned) =>
     \A i \in DOMAIN gradient_output.wrt :
        data[gradient_output.wrt[i]].rg = pre[gradient_output.wrt[i]].rg

\* C2: when GradientOutput.forward fails (the wrapped model raises, or a
\* gradient is disconnected), the requires_grad flag of every field named
\* in wrt equals its value before the call at the moment the failure
\* reaches the caller.
C2_FlagsRestoredOnFailure ==
  (IsGradientOutput /\ Failed) =>
     \A i \in DOMAIN gradient_output.wrt :
        data[gradient_output.wrt[i]].rg = pre[gradient_output.wrt[i]].rg

\* C3: when StressOutput.forward returns normally, the returned state
\* mapping has no entry under "_displacement".
C3_NoDisplacementReturned ==
  (IsStressOutput /\ Returned) => DISPLACEMENT \notin DOMAIN data

C3_Witness ==
  /\ IsStressOutput /\ Returned
  /\ DISPLACEMENT \in DOMAIN func_in
  /\ BATCH_KEY \notin DOMAIN pre
  /\ DISPLACEMENT \notin DOMAIN data

\* C4: "_displacement" is in a state mapping only while a
\* StressOutput.forward invocation is in progress: once the invocation has
\* ended, by returning or by failing, the mapping handed to it has no
\* "_displacement" entry.
C4_DisplacementOnlyInProgress ==
  (IsStressOutput /\ pc = "idle") => DISPLACEMENT \notin DOMAIN data

\* the differentiation pass of the invocation found entry i of wrt to be
\* without a path to the energy
NoDependency(i) ==
  /\ DOMAIN func_out # {}
  /\ ~Connected(gradient_output.func, func_out, gradient_output.wrt[i])

\* the diagnostic names entry i of wrt (by its field or its output field)
Identifies(e, i) ==
  \E j \in DOMAIN e.msg :
     e.msg[j] \in {gradient_output.wrt[i], gradient_output.out_field[i]}

\* the differentiation pass returned None for entry i of wrt
ResolvedToNone(i) == i \in DOMAIN grads /\ grads[i].isNone

\* C5 as stated: when the derivative for an entry of wrt resolves to "no
\* dependency", GradientOutput.forward ends in a failure whose diagnostic
\* identifies which entry of wrt is disconnected.
C5_DiagnosticNamesEntry ==
  (IsGradientOutput /\ (Returned \/ Failed)
     /\ \E i \in DOMAIN gradient_output.wrt : ResolvedToNone(i)) =>
     /\ Failed
     /\ \E i \in DOMAIN gradient_output.wrt : ResolvedToNone(i) /\ Identifies(err, i)

\* C5 as amended: a disconnected entry of wrt, at any position and whatever
\* the other entries are, makes GradientOutput.forward end in a RuntimeError
\* and never return a state; the diagnostic is a fixed message that names
\* no entry of wrt.
C5_DisconnectedAlwaysFails ==
  (IsGradientOutput /\ (Returned \/ Failed)
     /\ \E i \in DOMAIN gradient_output.wrt : NoDependency(i)) =>
     /\ Failed
     /\ err.type = "RuntimeError"
     /\ err.origin = "GradientOutput.forward" => err.msg = GradNoneMsg
     /\ \A i \in DOMAIN gradient_output.wrt : ~Identifies(err, i)

C5_Witness ==
  /\ IsGradientOutput /\ Failed
  /\ err.origin = "GradientOutput.forward"
  /\ Len(gradient_output.wrt) = 2
  /\ Len(grads) = 2
  /\ ~grads[1].isNone
  /\ grads[2].isNone
  /\ NoDependency(2)

\* C6: when StressOutput.forward returns normally, the requires_grad flag of
\* positions and of cell in the returned state equals the flag the field had
\* in the state before the call.
C6_StressFlagsRestored ==
  (IsStressOutput /\ Returned) =>
     \A f \in {POSITIONS_KEY, CELL_KEY} : data[f].rg = pre[f].rg

\* sign times a tensor value, element by element
Times(sign, t) ==
  IF t.rank = 2 THEN [i \in DOMAIN t.val |-> VecScale(sign, t.val[i])]
  ELSE [i \in DOMAIN t.val |-> MatScale(sign, t.val[i])]

\* the last entry of out_field that is the field f
LastWritten(f) ==
  CHOOSE i \in DOMAIN gradient_output.out_field :
     /\ gradient_output.out_field[i] = f
     /\ \A j \in DOMAIN gradient_output.out_field :
          gradient_output.out_field[j] = f => j <= i

\* C7: sign law.  Every output field a GradientOutput writes is sign times
\* the raw derivative, element by element (the raw derivative for sign = +1,
\* its negation for sign = -1), and every other field of the returned state
\* is as the wrapped model returned it, whatever the sign.
C7_SignLaw ==
  (IsGradientOutput /\ Returned) =>
     \A f \in DOMAIN data :
        IF f \in Range(gradient_output.out_field)
        THEN data[f].val = Times(gradient_output.sign, grads[LastWritten(f)])
        ELSE data[f].val = func_out[f].val

C7_Witness ==
  /\ IsGradientOutput /\ Returned
  /\ gradient_output.sign = -1
  /\ gradient_output.wrt = <<POSITIONS_KEY>>
  /\ gradient_output.func = "harmonic"
  /\ pre[POSITIONS_KEY].val[1] = <<0, 2, -1>>
  /\ data[gradient_output.out_field[1]].val[1] = <<0, -4, 2>>

ArgLen(a) == IF a.type = "str" THEN 1 ELSE Len(a.v)

ArgList(a) == IF a.type = "str" THEN <<a.v>> ELSE a.v

\* the constructor call that was made violates the construction contract
ContractViolated ==
  \/ /\ ctor_args.cls = "GradientOutput"
     /\ \/ ctor_args.sign \notin {1, -1}
        \/ /\ ctor_args.out_field.type # "None"
           /\ ArgLen(ctor_args.out_field) # ArgLen(ctor_args.wrt)
  \/ ctor_args.cls = "StressOutput" /\ ~ctor_args.do_forces

\* C8: a constructor call that violates the construction contract (sign not
\* +1 or -1, a number of output names other than the number of wrt names,
\* do_forces = false) fails, yields no wrapper and no forward call is ever
\* made; every wrapper that was constructed has sign +1 or -1 and one
\* output field name per wrt name, in the order of wrt.
C8_ConstructionContract ==
  /\ (ctor_args # NoObject /\ ContractViolated) =>
        /\ ctor_err # "none"
        /\ gradient_output = NoObject
        /\ stress_output = NoObject
        /\ pc = "dead"
        /\ calls = 0
  /\ gradient_output # NoObject =>
        /\ gradient_output.sign \in {1, -1}
        /\ gradient_output.wrt = ArgList(ctor_args.wrt)
        /\ Len(gradient_output.out_field) = Len(gradient_output.wrt)
        /\ \A i \in DOMAIN gradient_output.wrt :
              gradient_output.out_field[i] =
                 IF ctor_args.out_field.type = "None"
                 THEN DName(gradient_output.of, gradient_output.wrt[i])
                 ELSE ArgList(ctor_args.out_field)[i]

C8_Witness ==
  /\ ctor_args # NoObject
  /\ ctor_args.cls = "GradientOutput"
  /\ ctor_args.sign = -1
  /\ ArgLen(ctor_args.wrt) = 2
  /\ ctor_args.out_field = Str(FORCE_KEY)
  /\ ctor_err = "AssertionError"
  /\ pc = "dead"

\* the caller's cell, one per configuration
ReferenceCell(c) ==
  IF Len(pre[CELL_KEY].val) = 1 THEN pre[CELL_KEY].val[1] ELSE pre[CELL_KEY].val[c]

\* C9: deformation neutrality.  The positions and the cell StressOutput
\* hands to the wrapped model equal in value the caller's positions and
\* per-configuration cell, and the forces it returns are, as those of
\* ForceOutput on the same model and input, the gradient of the energy with
\* respect to the undeformed positions negated once.
C9_DeformationNeutrality ==
  /\ (IsStressOutput /\ DOMAIN func_in # {}) =>
        /\ func_in[POSITIONS_KEY].val = pre[POSITIONS_KEY].val
        /\ func_in[CELL_KEY].val = [c \in 1..num_batch |-> ReferenceCell(c)]
  /\ (Returned /\ ctor_args.cls \in {"StressOutput", "ForceOutput"}) =>
        data[FORCE_KEY].val =
           [i \in 1..NAtoms(pre) |->
              VecScale(-1, GradPos(gradient_output.func, pre)[i])]

C9_Witness ==
  /\ IsStressOutput /\ Returned
  /\ gradient_output.func = "coupled"
  /\ num_batch = 2
  /\ Len(pre[CELL_KEY].val) = 2
  /\ pre[CELL_KEY].val[2] = <<<<2, 0, 0>>, <<1, 1, 0>>, <<0, 0, 1>>>>
  /\ data[FORCE_KEY].val[2] = <<-2, 0, 0>>

\* the determinant of a 3x3 matrix, expanded along its first row
Det(A) ==
  A[1][1] * (A[2][2] * A[3][3] - A[2][3] * A[3][2])
    - A[1][2] * (A[2][1] * A[3][3] - A[2][3] * A[3][1])
    + A[1][3] * (A[2][1] * A[3][2] - A[2][2] * A[3][1])

\* C10: the stress StressOutput returns for configuration c is the
\* un-negated gradient with respect to the strain of c divided by the
\* volume row0 . (row1 x row2) of the reference cell of c, the cell as it
\* was before the deformation was applied, for every configuration.
C10_ReferenceVolume ==
  (IsStressOutput /\ Returned) =>
     /\ Len(data[STRESS_KEY].val) = num_batch
     /\ \A c \in 1..num_batch :
          data[STRESS_KEY].val[c] =
             [num |-> grads[2].val[c], den |-> Det(ReferenceCell(c))]

C10_Witness ==
  /\ IsStressOutput /\ Returned
  /\ gradient_output.func = "harmonic"
  /\ num_batch = 2
  /\ pre[POSITIONS_KEY].val = << <<1, 0, 0>>, <<0, 2, -1>> >>
  /\ data[STRESS_KEY].val[1] =
       [num |-> <<<<2, 0, 0>>, <<0, 0, 0>>, <<0, 0, 0>>>>, den |-> 1]
  /\ data[STRESS_KEY].val[2] =
       [num |-> <<<<0, 0, 0>>, <<0, 8, -4>>, <<0, -4, 2>>>>, den |-> 2]
====
